---- MODULE Spec2Model ----
(***************************************************************************)
(* Bulk Lifestyle AI: the App component's state (images, settings,         *)
(* isProcessing), its handlers (handleFileChange, removeImage,             *)
(* startProcessing, clearAll, the settings controls) and the image         *)
(* request client (fileToBase64, generateLifestyleImage).                  *)
(*                                                                         *)
(* Every invocation of startProcessing is an async closure: it keeps the   *)
(* `images` and `settings` values of the render it was created in and      *)
(* suspends at its two awaits.  `runs` holds one record per invocation;    *)
(* the state updates an invocation makes between two awaits are one step   *)
(* (React applies them together before the next event is handled).         *)
(* Item identifiers (Math.random) are modelled as fresh numbers.           *)
(*                                                                         *)
(* Spec is the whole component over small batches; SpecBatch leaves the    *)
(* settings controls alone (they touch nothing but `settings`) and         *)
(* explores larger batches.                                                *)
(***************************************************************************)
EXTENDS Integers, Sequences, FiniteSets, TLC

VARIABLES
  images,        \* useState<ImageFile[]>: the collection, in insertion order
  settings,      \* useState<GenerationSettings>
  isProcessing,  \* useState(false): the in-progress flag
  runs,          \* the invocations of startProcessing: the live ones, and
                 \* one that has just returned until the next UI event
  revoked,       \* ids whose preview object URL has been revoked
  nextId,        \* the next fresh item id
  started,       \* invocations of startProcessing so far
  edits,         \* settings edits so far
  cap,           \* the bounds of this exploration: files, runs, edits
  call,          \* generateLifestyleImage calls followed on their own: the
                 \* response each one receives, and its result once settled
  proxy          \* onRequestPost invocations followed on their own: the
                 \* request, the upstream response and the answer

vars == <<images, settings, isProcessing, runs, revoked, nextId, started, edits, cap, call, proxy>>

\* ---------------------------------------------------------------- bounds
MaxIds == 3        \* files ever added (SpecBatch)
MaxRuns == 2       \* invocations of startProcessing (SpecBatch)
LiveIds == 2       \* files ever added (SpecLive)
LiveRuns == 2      \* invocations of startProcessing (SpecLive)
SettingsIds == 1   \* files ever added (Spec)
SettingsRuns == 2  \* invocations of startProcessing (Spec)
MaxEdits == 1      \* edits of the settings (Spec)
NumPresets == 1    \* members of LifestylePreset among the select's options
NumRatios == 2     \* aspect-ratio buttons
NumRequests == 3   \* well-formed request texts (SpecProxy)
ScanMaxParts == 3  \* parts of a response (SpecScan)
MaxParts == 2      \* content parts of one API response

\* ----------------------------------------------------------------- types
Undefined == "undefined"

LifestylePreset ==
  << [key |-> "SCANDINAVIAN", value |-> "In a bright, airy Scandinavian living room with light wood furniture and soft textures"],
     [key |-> "MINIMALIST_ZEN", value |-> "In a minimalist zen space with natural stone, bamboo, and soft indirect lighting"],
     [key |-> "INDUSTRIAL_LOFT", value |-> "In a modern industrial loft with exposed brick, metal accents, and warm Edison bulbs"],
     [key |-> "MODERN_KITCHEN", value |-> "On a white marble kitchen island with high-end appliances and fresh herbs in the background"],
     [key |-> "NATURE_OUTDOOR", value |-> "On a rustic wooden table outdoors with blurred green forest and soft sunlight bokeh"],
     [key |-> "LUXURY_STUDIO", value |-> "In a high-end luxury studio setting with dramatic shadows and premium velvet textures"],
     [key |-> "BOHEMIAN_CHIC", value |-> "In a cozy bohemian room with plants, macrame, and warm sunbeams"],
     [key |-> "TECH_OFFICE", value |-> "On a clean white desk in a high-tech office with a blurred city skyline view"] >>

PresetValues == { LifestylePreset[k].value : k \in 1..Len(LifestylePreset) }

Min(a, b) == IF a < b THEN a ELSE b

\* the <option> values of the preset select: the first NumPresets members
\* of LifestylePreset and the extra option CUSTOM
PresetOptions ==
  { LifestylePreset[k].value : k \in 1..Min(NumPresets, Len(LifestylePreset)) }
    \cup {"CUSTOM"}

\* what the textarea can hold (the empty text and one typed text)
CustomPrompts == {"", "Neon cyberpunk alley"}

AspectRatioButtons == <<"1:1", "4:3", "3:4", "16:9", "9:16">>

\* the first NumRatios aspect-ratio buttons
AspectRatios ==
  { AspectRatioButtons[k] : k \in 1..Min(NumRatios, Len(AspectRatioButtons)) }

\* a new item of handleFileChange: no resultUrl, no error
NewImageFile(id) ==
  [id |-> id, status |-> "pending", resultUrl |-> Undefined, error |-> Undefined]

InitialSettings ==
  [preset |-> LifestylePreset[1].value, customPrompt |-> "", aspectRatio |-> "1:1"]

\* ------------------------------------------------------- image client
\* A response: whether it has a first candidate, and that candidate's parts;
\* a part is text or carries inlineData (its data).
PartKinds == {"text", "imgA", "imgB"}

HasInlineData(part) == part # "text"

RECURSIVE SeqsUpTo(_, _)
SeqsUpTo(S, n) ==
  IF n = 0 THEN { <<>> }
  ELSE LET shorter == SeqsUpTo(S, n - 1)
       IN  shorter \cup { Append(s, x) : s \in { t \in shorter : Len(t) = n - 1 }, x \in S }

Responses ==
  {[hasCandidate |-> FALSE, parts |-> <<>>]}
    \cup { [hasCandidate |-> TRUE, parts |-> p] : p \in SeqsUpTo(PartKinds, MaxParts) }

\* response.candidates?.[0]?.content?.parts || []
ResponseParts(response) == IF response.hasCandidate THEN response.parts ELSE <<>>

\* a scan that looks at the first part only
ScanPartsFirstOnly(parts, k) ==
  IF k > Len(parts) THEN ""
  ELSE IF HasInlineData(parts[k]) THEN "data:image/png;base64," \o parts[k]
  ELSE ""

\* the for loop over the parts: the first part with inlineData, else ''
RECURSIVE ScanParts(_, _)
ScanParts(parts, k) ==
  IF k > Len(parts) THEN ""
  ELSE IF HasInlineData(parts[k]) THEN "data:image/png;base64," \o parts[k]
  ELSE ScanParts(parts, k + 1)

NoImageMessage == "No image was generated in the response."

\* the outcome of generateLifestyleImage on a response that arrived
GenerateLifestyleImage(response) ==
  LET imageUrl == ScanParts(ResponseParts(response), 1)
  IN  IF imageUrl = "" THEN [ok |-> FALSE, message |-> NoImageMessage]
      ELSE [ok |-> TRUE, url |-> imageUrl]

\* what generateLifestyleImage can make of a response
Outcomes == { GenerateLifestyleImage(response) : response \in Responses }

\* messages of the errors the API call itself throws
ApiErrorMessages == {"API error"}

\* (error as Error).message of a rejection value: the FileReader rejects
\* with a ProgressEvent, which has no message property
ErrorMessage(rejection) ==
  IF rejection.kind = "ProgressEvent" THEN Undefined ELSE rejection.message

\* ---------------------------------------------------------- the runner
\* an update that patches every item
MapStatusAll(prev, id, status) ==
  [k \in 1..Len(prev) |-> [prev[k] EXCEPT !.status = status]]

\* prev.map(item => item.id === id ? {...item, ...patch} : item)
MapStatus(prev, id, status) ==
  [k \in 1..Len(prev) |->
     IF prev[k].id = id THEN [prev[k] EXCEPT !.status = status] ELSE prev[k]]

\* an update without the test of the id
MapCompletedAll(prev, id, resultUrl) ==
  [k \in 1..Len(prev) |->
     [prev[k] EXCEPT !.status = "completed", !.resultUrl = resultUrl]]

\* an update that adds the item when no item has the id
MapCompletedUpsert(prev, id, resultUrl) ==
  IF \E k \in 1..Len(prev) : prev[k].id = id
    THEN [k \in 1..Len(prev) |->
            IF prev[k].id = id
              THEN [prev[k] EXCEPT !.status = "completed", !.resultUrl = resultUrl]
              ELSE prev[k]]
    ELSE Append(prev, [id |-> id, status |-> "completed",
                       resultUrl |-> resultUrl, error |-> Undefined])

MapCompletedNoUrl(prev, id, resultUrl) == MapStatus(prev, id, "completed")

MapCompleted(prev, id, resultUrl) ==
  [k \in 1..Len(prev) |->
     IF prev[k].id = id
       THEN [prev[k] EXCEPT !.status = "completed", !.resultUrl = resultUrl]
       ELSE prev[k]]

\* an update that records the message and leaves the status
MapErrorKeepStatus(prev, id, message) ==
  [k \in 1..Len(prev) |->
     IF prev[k].id = id THEN [prev[k] EXCEPT !.error = message] ELSE prev[k]]

MapError(prev, id, message) ==
  [k \in 1..Len(prev) |->
     IF prev[k].id = id
       THEN [prev[k] EXCEPT !.status = "error", !.error = message]
       ELSE prev[k]]

SkippedNever(img) == FALSE

\* if (img.status === 'completed') continue;
Skipped(img) == img.status = "completed"

RECURSIVE FirstOpen(_, _)
FirstOpen(snapshot, k) ==
  IF k > Len(snapshot) THEN k
  ELSE IF Skipped(snapshot[k]) THEN FirstOpen(snapshot, k + 1)
  ELSE k

\* a loop that looks for its next item from the front of the list again
NextIndexRestart(snapshot, from) ==
  IF from > Len(snapshot) + 1 THEN from ELSE FirstOpen(snapshot, 1)

\* the loop's next index at or after `from` that is not skipped
\* (Len + 1 when the loop runs off the end)
RECURSIVE NextIndex(_, _)
NextIndex(snapshot, from) ==
  IF from > Len(snapshot) THEN from
  ELSE IF Skipped(snapshot[from]) THEN NextIndex(snapshot, from + 1)
  ELSE from

\* settings.customPrompt || settings.preset
FinalPrompt(s) == IF s.customPrompt # "" THEN s.customPrompt ELSE s.preset

Active(run) == run.pc # "done"

ActiveRuns == { r \in DOMAIN runs : Active(runs[r]) }

\* an invocation that has returned is gone at the next UI event
Retire(rs) == SelectSeq(rs, Active)

RequestSettingsLive(run) == settings

\* the settings object a run's request reads its aspect ratio from: the
\* `settings` of the closure, the value of the render the run started in
RequestSettings(run) == run.settings

\* a loop that returns without setIsProcessing(false)
LoopFromNoClear(r, run, from, imgs) ==
  LET j == NextIndex(run.images, from)
  IN  IF j <= Len(run.images)
        THEN /\ images' = MapStatus(imgs, run.images[j].id, "processing")
             /\ runs' = [runs EXCEPT ![r] = [run EXCEPT !.i = j, !.pc = "encode"]]
             /\ isProcessing' = isProcessing
        ELSE /\ images' = imgs
             /\ runs' = [runs EXCEPT ![r] = [run EXCEPT !.i = j, !.pc = "done"]]
             /\ isProcessing' = isProcessing

\* The loop from index `from` on, up to its next await or its end: the
\* next item that is not skipped is set to processing and its encoding
\* starts; past the last item the flag is cleared.
LoopFrom(r, run, from, imgs) ==
  LET j == NextIndex(run.images, from)
  IN  IF j <= Len(run.images)
        THEN /\ images' = MapStatus(imgs, run.images[j].id, "processing")
             /\ runs' = [runs EXCEPT ![r] = [run EXCEPT !.i = j, !.pc = "encode"]]
             /\ isProcessing' = isProcessing
        ELSE /\ images' = imgs
             /\ runs' = [runs EXCEPT ![r] = [run EXCEPT !.i = j, !.pc = "done"]]
             /\ isProcessing' = FALSE

\* ------------------------------------------------------------ UI guards
StartEnabledAlways == Len(images) > 0

ClearEnabledAlways == Len(images) > 0

\* the start button: disabled={isProcessing || images.length === 0}
StartEnabled == ~isProcessing /\ Len(images) > 0

\* the clear button: rendered when images.length > 0, disabled={isProcessing}
ClearEnabled == Len(images) > 0 /\ ~isProcessing

\* the empty-state upload area, or the add-more slot
UploadEnabled ==
  \/ Len(images) = 0
  \/ ~isProcessing /\ Len(images) > 0

\* the controls overlay's button, or the error overlay's Remove button
RemoveEnabled(img) ==
  \/ ~isProcessing /\ img.status # "processing"
  \/ img.status = "error"

\* ---------------------------------------------------------------- state
Mounted ==
  /\ images = <<>>
  /\ settings = InitialSettings
  /\ isProcessing = FALSE
  /\ runs = <<>>
  /\ revoked = {}
  /\ nextId = 1
  /\ started = 0
  /\ edits = 0
  /\ call = <<>>
  /\ proxy = <<>>

Init ==
  /\ Mounted
  /\ cap = [ids |-> SettingsIds, runs |-> SettingsRuns, edits |-> MaxEdits]

InitBatch ==
  /\ Mounted
  /\ cap = [ids |-> MaxIds, runs |-> MaxRuns, edits |-> 0]

InitLive ==
  /\ Mounted
  /\ cap = [ids |-> LiveIds, runs |-> LiveRuns, edits |-> 0]

\* -------------------------------------------------------------- actions
handleFileChange ==
  /\ UploadEnabled
  /\ \E n \in 1..cap.ids :
       /\ nextId + n - 1 <= cap.ids
       /\ images' = images \o [k \in 1..n |-> NewImageFile(nextId + k - 1)]
       /\ nextId' = nextId + n
  /\ runs' = Retire(runs)
  /\ UNCHANGED <<settings, isProcessing, revoked, started, edits, cap, call, proxy>>

\* a removal that leaves the preview's object URL alone
removeImageNoRevoke ==
  /\ \E k \in 1..Len(images) :
       /\ RemoveEnabled(images[k])
       /\ revoked' = revoked
       /\ images' = SelectSeq(images, LAMBDA img : img.id # images[k].id)
  /\ runs' = Retire(runs)
  /\ UNCHANGED <<settings, isProcessing, nextId, started, edits, cap, call, proxy>>

removeImage ==
  /\ \E k \in 1..Len(images) :
       /\ RemoveEnabled(images[k])
       /\ revoked' = revoked \cup {images[k].id}
       /\ images' = SelectSeq(images, LAMBDA img : img.id # images[k].id)
  /\ runs' = Retire(runs)
  /\ UNCHANGED <<settings, isProcessing, nextId, started, edits, cap, call, proxy>>

clearAll ==
  /\ ClearEnabled
  /\ revoked' = revoked \cup { images[k].id : k \in 1..Len(images) }
  /\ images' = <<>>
  /\ isProcessing' = FALSE
  /\ runs' = Retire(runs)
  /\ UNCHANGED <<settings, nextId, started, edits, cap, call, proxy>>

\* setSettings(s => ({ ...s, ...patch }))
SetSettings(patch) ==
  /\ edits < cap.edits
  /\ settings' = patch
  /\ edits' = edits + 1
  /\ runs' = Retire(runs)
  /\ UNCHANGED <<images, isProcessing, revoked, nextId, started, cap, call, proxy>>

setPreset ==
  \E p \in PresetOptions \ {settings.preset} :
    SetSettings([settings EXCEPT !.preset = p])

setCustomPrompt ==
  \E t \in CustomPrompts \ {settings.customPrompt} :
    SetSettings([settings EXCEPT !.customPrompt = t])

setAspectRatio ==
  \E a \in AspectRatios \ {settings.aspectRatio} :
    SetSettings([settings EXCEPT !.aspectRatio = a])

\* startProcessing up to its first await
startProcessing ==
  /\ StartEnabled
  /\ started < cap.runs
  /\ Len(images) # 0
  /\ started' = started + 1
  /\ LET run == [images |-> images, settings |-> settings,
                 finalPrompt |-> FinalPrompt(settings),
                 i |-> 0, pc |-> "start", log |-> <<>>, failed |-> {},
                 \* observation: ids whose fileToBase64 rejected
                 unreadable |-> {}]
         j == NextIndex(images, 1)
     IN  IF j <= Len(images)
           THEN /\ images' = MapStatus(images, images[j].id, "processing")
                /\ runs' = Append(Retire(runs), [run EXCEPT !.i = j, !.pc = "encode"])
                /\ isProcessing' = TRUE
           ELSE /\ images' = images
                /\ runs' = Append(Retire(runs), [run EXCEPT !.i = j, !.pc = "done"])
                /\ isProcessing' = FALSE
  /\ UNCHANGED <<settings, revoked, nextId, edits, cap, call, proxy>>

\* fileToBase64 resolves: generateLifestyleImage is called
encodeResolve(r) ==
  /\ runs[r].pc = "encode"
  /\ LET run == runs[r]
         request == [id |-> run.images[run.i].id,
                     prompt |-> run.finalPrompt,
                     aspectRatio |-> RequestSettings(run).aspectRatio,
                     \* observation: were the settings edited since the start
                     edited |-> settings # run.settings]
     IN  runs' = [runs EXCEPT ![r] = [run EXCEPT !.pc = "generate",
                                                 !.log = Append(run.log, request)]]
  /\ UNCHANGED <<images, settings, isProcessing, revoked, nextId, started, edits, cap, call, proxy>>

\* the item of a rejection that came from fileToBase64 (reader.onerror
\* rejects with the reader's ProgressEvent)
Unreadable(rejection, id) == IF rejection.kind = "ProgressEvent" THEN {id} ELSE {}

\* a catch around the whole loop: the failure ends the run
CatchAbort(r, rejection) ==
  LET run == runs[r]
      id == run.images[run.i].id
  IN  /\ images' = MapError(images, id, ErrorMessage(rejection))
      /\ runs' = [runs EXCEPT ![r] = [run EXCEPT !.failed = run.failed \cup {id},
                                                 !.unreadable = run.unreadable \cup Unreadable(rejection, id),
                                                 !.pc = "done"]]
      /\ isProcessing' = FALSE

\* a catch block that gives a failed item one more turn
CatchRetry(r, rejection) ==
  LET run == runs[r]
      id == run.images[run.i].id
  IN  LoopFrom(r, [run EXCEPT !.failed = run.failed \cup {id},
                              !.unreadable = run.unreadable \cup Unreadable(rejection, id)],
               IF id \in run.failed THEN run.i + 1 ELSE run.i,
               MapError(images, id, ErrorMessage(rejection)))

\* the catch block, then the loop goes on
Catch(r, rejection) ==
  LET run == runs[r]
      id == run.images[run.i].id
  IN  LoopFrom(r, [run EXCEPT !.failed = run.failed \cup {id},
                              !.unreadable = run.unreadable \cup Unreadable(rejection, id)],
               run.i + 1,
               MapError(images, id, ErrorMessage(rejection)))

\* fileToBase64 rejects (reader.onerror)
encodeReject(r) ==
  /\ runs[r].pc = "encode"
  /\ Catch(r, [kind |-> "ProgressEvent"])
  /\ UNCHANGED <<settings, revoked, nextId, started, edits, cap, call, proxy>>

\* the API call returns a response
generateResolve(r) ==
  /\ runs[r].pc = "generate"
  /\ \E res \in Outcomes :
       LET run == runs[r]
       IN  IF res.ok
             THEN LoopFrom(r, run, run.i + 1,
                           MapCompleted(images, run.images[run.i].id, res.url))
             ELSE Catch(r, [kind |-> "Error", message |-> res.message])
  /\ UNCHANGED <<settings, revoked, nextId, started, edits, cap, call, proxy>>

\* the API call throws (network failure, non-success status)
generateReject(r) ==
  /\ runs[r].pc = "generate"
  /\ \E m \in ApiErrorMessages : Catch(r, [kind |-> "Error", message |-> m])
  /\ UNCHANGED <<settings, revoked, nextId, started, edits, cap, call, proxy>>

\* the collection's handlers and the runner
NextBatch ==
  \/ handleFileChange
  \/ removeImage
  \/ clearAll
  \/ startProcessing
  \/ \E r \in DOMAIN runs : encodeResolve(r)
  \/ \E r \in DOMAIN runs : encodeReject(r)
  \/ \E r \in DOMAIN runs : generateResolve(r)
  \/ \E r \in DOMAIN runs : generateReject(r)

Next ==
  \/ NextBatch
  \/ setPreset
  \/ setCustomPrompt
  \/ setAspectRatio

\* the whole component
Spec == Init /\ [][Next]_vars

\* the component with its settings left alone, over larger batches
SpecBatch == InitBatch /\ [][NextBatch]_vars

\* the pending fileToBase64 promise settles
EncodeSettles == \E r \in DOMAIN runs : encodeResolve(r) \/ encodeReject(r)

\* the pending generateLifestyleImage promise settles
GenerateSettles == \E r \in DOMAIN runs : generateResolve(r) \/ generateReject(r)

\* the collection's handlers and the runner, every encode and every API
\* call settling eventually
SpecLive ==
  /\ InitLive
  /\ [][NextBatch]_vars
  /\ WF_vars(EncodeSettles)
  /\ WF_vars(GenerateSettles)

\* the parts a response can carry: text, or inlineData with some data
\* (the empty string included)
ScanPartKinds == PartKinds \cup {""}

ScanResponses ==
  {[hasCandidate |-> FALSE, parts |-> <<>>]}
    \cup { [hasCandidate |-> TRUE, parts |-> p] : p \in SeqsUpTo(ScanPartKinds, ScanMaxParts) }

\* one call of generateLifestyleImage, awaiting its response
InitScan ==
  /\ images = <<>>
  /\ settings = InitialSettings
  /\ isProcessing = FALSE
  /\ runs = <<>>
  /\ revoked = {}
  /\ nextId = 1
  /\ started = 0
  /\ edits = 0
  /\ cap = [ids |-> 0, runs |-> 0, edits |-> 0]
  /\ \E response \in ScanResponses :
       call = << [response |-> response, settled |-> FALSE,
                  result |-> [ok |-> FALSE, message |-> ""]] >>
  /\ proxy = <<>>

\* generateContent resolves and generateLifestyleImage scans the response
generateLifestyleImage ==
  /\ \E c \in DOMAIN call :
       /\ ~call[c].settled
       /\ call' = [call EXCEPT ![c].settled = TRUE,
                               ![c].result = GenerateLifestyleImage(call[c].response)]
  /\ UNCHANGED <<images, settings, isProcessing, runs, revoked, nextId, started, edits, cap, proxy>>

NextScan == generateLifestyleImage

SpecScan == InitScan /\ [][NextScan]_vars

\* ------------------------------------------------------------ the proxy
\* Request texts that are JSON, each with JSON.stringify(JSON.parse(text))
RequestTexts ==
  << [text |-> "{\"contents\":[]}", json |-> "{\"contents\":[]}"],
     [text |-> "{ \"contents\" : [ ] }", json |-> "{\"contents\":[]}"],
     [text |-> "[1, 2]", json |-> "[1,2]"],
     [text |-> "null", json |-> "null"],
     [text |-> " 1 ", json |-> "1"] >>

\* a request text that context.request.json() cannot parse
MalformedText == "{"

ProxyRequests ==
  { RequestTexts[k].text : k \in 1..Min(NumRequests, Len(RequestTexts)) } \cup {MalformedText}

\* JSON.stringify(await context.request.json()) of a well-formed text
Forwarded(text) ==
  LET k == CHOOSE m \in DOMAIN RequestTexts : RequestTexts[m].text = text
  IN  RequestTexts[k].json

\* what the upstream API can answer
UpstreamStatuses == {200, 400, 429, 500}

UpstreamBodies == {"{\"candidates\":[]}", "{\"error\":{\"code\":429}}", ""}

\* err.message of what request.json(), fetch and response.text() throw
JsonErrorMessage == "Unexpected end of JSON input"

FetchErrorMessage == "fetch failed"

TextErrorMessage == "terminated"

ThrownMessages == {JsonErrorMessage, FetchErrorMessage, TextErrorMessage}

\* JSON.stringify({ error: err.message })
ErrorEnvelope(message) == "{\"error\":\"" \o message \o "\"}"

\* one invocation of onRequestPost, about to read its request
InitProxy ==
  /\ images = <<>>
  /\ settings = InitialSettings
  /\ isProcessing = FALSE
  /\ runs = <<>>
  /\ revoked = {}
  /\ nextId = 1
  /\ started = 0
  /\ edits = 0
  /\ cap = [ids |-> 0, runs |-> 0, edits |-> 0]
  /\ call = <<>>
  /\ \E text \in ProxyRequests :
       proxy = << [pc |-> "json", text |-> text, sent |-> "",
                   upstream |-> [status |-> 0, body |-> ""],
                   \* observation: did the try block throw
                   threw |-> FALSE,
                   answer |-> [status |-> 0, body |-> "", contentType |-> ""]] >>

\* the catch block: new Response(JSON.stringify({ error }), { status: 500 })
ProxyCatch(c, message) ==
  proxy' = [proxy EXCEPT ![c].pc = "done",
                         ![c].threw = TRUE,
                         ![c].answer = [status |-> 500,
                                        body |-> ErrorEnvelope(message),
                                        contentType |-> "text/plain;charset=UTF-8"]]

\* await context.request.json()
requestJson(c) ==
  /\ proxy[c].pc = "json"
  /\ IF proxy[c].text = MalformedText
       THEN ProxyCatch(c, JsonErrorMessage)
       ELSE proxy' = [proxy EXCEPT ![c].pc = "fetch",
                                   ![c].sent = Forwarded(proxy[c].text)]
  /\ UNCHANGED <<images, settings, isProcessing, runs, revoked, nextId, started, edits, cap, call>>

\* fetch resolves, whatever the status of the upstream response
fetchResolve(c) ==
  /\ proxy[c].pc = "fetch"
  /\ \E status \in UpstreamStatuses, body \in UpstreamBodies :
       proxy' = [proxy EXCEPT ![c].pc = "text",
                              ![c].upstream = [status |-> status, body |-> body]]
  /\ UNCHANGED <<images, settings, isProcessing, runs, revoked, nextId, started, edits, cap, call>>

\* fetch rejects (network failure)
fetchReject(c) ==
  /\ proxy[c].pc = "fetch"
  /\ ProxyCatch(c, FetchErrorMessage)
  /\ UNCHANGED <<images, settings, isProcessing, runs, revoked, nextId, started, edits, cap, call>>

\* response.text() resolves: new Response(data, { headers })
textResolve(c) ==
  /\ proxy[c].pc = "text"
  /\ proxy' = [proxy EXCEPT ![c].pc = "done",
                            ![c].answer = [status |-> 200,
                                           body |-> proxy[c].upstream.body,
                                           contentType |-> "application/json"]]
  /\ UNCHANGED <<images, settings, isProcessing, runs, revoked, nextId, started, edits, cap, call>>

\* response.text() rejects (the body's stream fails)
textReject(c) ==
  /\ proxy[c].pc = "text"
  /\ ProxyCatch(c, TextErrorMessage)
  /\ UNCHANGED <<images, settings, isProcessing, runs, revoked, nextId, started, edits, cap, call>>

NextProxy ==
  \/ \E c \in DOMAIN proxy : requestJson(c)
  \/ \E c \in DOMAIN proxy : fetchResolve(c)
  \/ \E c \in DOMAIN proxy : fetchReject(c)
  \/ \E c \in DOMAIN proxy : textResolve(c)
  \/ \E c \in DOMAIN proxy : textReject(c)

SpecProxy == InitProxy /\ [][NextProxy]_vars

\* ------------------------------------------------------------ properties
Terminal == {"completed", "error"}

Ids(items) == { items[k].id : k \in DOMAIN items }

Present(id) == id \in Ids(images)

StatusOf(id) == images[CHOOSE k \in DOMAIN images : images[k].id = id].status

\* the positions of a run's snapshot that the loop does not skip
Open(run) == { k \in DOMAIN run.images : run.images[k].status # "completed" }

PositionIn(run, id) == CHOOSE k \in DOMAIN run.images : run.images[k].id = id

TypeOK ==
  /\ \A k \in DOMAIN images :
       /\ images[k].status \in {"pending", "processing", "completed", "error"}
       /\ images[k].id \in 1..(nextId - 1)
  /\ \A k, m \in DOMAIN images : images[k].id = images[m].id => k = m
  /\ isProcessing \in BOOLEAN
  /\ settings.preset \in PresetOptions
  /\ settings.customPrompt \in CustomPrompts
  /\ settings.aspectRatio \in AspectRatios

\* C1: when a run finishes (its invocation has just returned), every item
\* of the collection has status completed or error.
C1_AllTerminalAtRunEnd ==
  \A r \in DOMAIN runs :
    runs[r].pc = "done" =>
      \A k \in DOMAIN images : images[k].status \in Terminal

\* C2: an item that is completed when a run starts is never submitted to
\* the image request client during that run, and while the run lasts and
\* when it finishes the item is in the collection with the same status and
\* the same result reference.
C2_CompletedUntouched ==
  \A r \in DOMAIN runs :
    \A k \in DOMAIN runs[r].images :
      LET item == runs[r].images[k]
      IN  item.status = "completed" =>
            /\ item.id \notin Ids(runs[r].log)
            /\ \E m \in DOMAIN images :
                 /\ images[m].id = item.id
                 /\ images[m].status = "completed"
                 /\ images[m].resultUrl = item.resultUrl

\* a second run has finished: it submitted an item and left a completed one
C2_Witness ==
  /\ started = 2
  /\ \E r \in DOMAIN runs :
       /\ runs[r].pc = "done"
       /\ Len(runs[r].log) > 0
       /\ \E k \in DOMAIN runs[r].images : runs[r].images[k].status = "completed"

\* C3: within a run the image request client is called for items that were
\* not completed at run start, in the order of the collection at run
\* start; when the loop is at item i, every earlier item that was not
\* completed has had its turn (its call was made or its encoding failed)
\* and, if still in the collection, has status completed or error.
C3_CallsInOrder ==
  \A r \in DOMAIN runs :
    LET run == runs[r]
    IN  /\ \A q \in DOMAIN run.log :
             /\ run.log[q].id \in Ids(run.images)
             /\ PositionIn(run, run.log[q].id) \in Open(run)
        /\ \A p, q \in DOMAIN run.log :
             p < q => PositionIn(run, run.log[p].id) < PositionIn(run, run.log[q].id)
        /\ run.pc = "generate" => run.log[Len(run.log)].id = run.images[run.i].id
        /\ \A k \in Open(run) :
             k < run.i =>
               /\ run.images[k].id \in Ids(run.log) \cup run.failed
               /\ Present(run.images[k].id) =>
                    StatusOf(run.images[k].id) \in Terminal

\* the second call of a run is in flight
C3_Witness ==
  \E r \in DOMAIN runs :
    /\ runs[r].pc = "generate"
    /\ Len(runs[r].log) = 2
    /\ StatusOf(runs[r].images[runs[r].i].id) = "processing"

\* C4: an item that failed in a run (encoding failure, no image in the
\* response, API failure) has status error for the rest of the run, and
\* when the run finishes every item that was not completed at run start
\* has had its turn and, if still in the collection, has status completed
\* or error.
C4_FailureDoesNotAbort ==
  \A r \in DOMAIN runs :
    LET run == runs[r]
    IN  /\ \A id \in run.failed : Present(id) => StatusOf(id) = "error"
        /\ run.pc = "done" =>
             \A k \in Open(run) :
               /\ run.images[k].id \in Ids(run.log) \cup run.failed
               /\ Present(run.images[k].id) =>
                    StatusOf(run.images[k].id) \in Terminal

\* a run has finished whose first item failed at encoding and whose later
\* items failed without an image, failed at the API and completed
C4_Witness ==
  \E r \in DOMAIN runs :
    /\ runs[r].pc = "done"
    /\ Len(images) = 3
    /\ Len(runs[r].images) = 3
    /\ images[1].status = "error" /\ images[1].error = Undefined
    /\ images[2].status = "error" /\ images[2].error \in {NoImageMessage} \cup ApiErrorMessages
    /\ images[3].status = "completed"
    /\ runs[r].failed = {images[1].id, images[2].id}

\* C5: an item has an error message iff its status is error, and pending
\* and processing items have neither a result reference nor an error
\* message.
C5_ErrorMessageIffError ==
  \A k \in DOMAIN images :
    /\ images[k].error # Undefined <=> images[k].status = "error"
    /\ images[k].status \in {"pending", "processing"} =>
         images[k].resultUrl = Undefined /\ images[k].error = Undefined

\* C6: an item has a result reference iff its status is completed.
C6_ResultIffCompleted ==
  \A k \in DOMAIN images :
    images[k].resultUrl # Undefined <=> images[k].status = "completed"

\* in a second run, next to a completed item, an item that failed in the
\* first run is processed again
C6_Witness ==
  /\ started = 2
  /\ \E k, m \in DOMAIN images :
       /\ images[k].status = "completed" /\ images[k].resultUrl # Undefined
       /\ images[m].status = "processing" /\ images[m].error # Undefined

\* C7: the prompt of every request is the override when it is non-empty and
\* else the preset, and it is the non-empty override or one of the
\* LifestylePreset description texts.
C7_PromptIsOverrideOrPresetText ==
  \A r \in DOMAIN runs :
    \A q \in DOMAIN runs[r].log :
      /\ runs[r].log[q].prompt =
           IF runs[r].settings.customPrompt # ""
             THEN runs[r].settings.customPrompt
             ELSE runs[r].settings.preset
      /\ runs[r].log[q].prompt \in (CustomPrompts \ {""}) \cup PresetValues

\* C8: every request of a run carries the effective prompt and the aspect
\* ratio of the settings the run started with.
C8_RequestsUseStartSettings ==
  \A r \in DOMAIN runs :
    \A q \in DOMAIN runs[r].log :
      /\ runs[r].log[q].prompt = FinalPrompt(runs[r].settings)
      /\ runs[r].log[q].aspectRatio = runs[r].settings.aspectRatio

\* a request was made after the settings had been edited during the run
C8_Witness ==
  \E r \in DOMAIN runs :
    \E q \in DOMAIN runs[r].log :
      /\ runs[r].log[q].edited
      /\ runs[r].log[q].aspectRatio = runs[r].settings.aspectRatio

\* C9: at most one invocation of startProcessing is active, and the flag
\* is set for as long as it is.
C9_AtMostOneRun ==
  /\ Cardinality(ActiveRuns) <= 1
  /\ ActiveRuns # {} => isProcessing

\* a run is in flight, the collection is not empty and a further
\* invocation is within the bound
C9_Witness ==
  /\ isProcessing
  /\ ActiveRuns # {}
  /\ started < cap.runs
  /\ Len(images) > 0

\* C10 as stated: while the flag is set the settings cannot change.
C10_SettingsFrozenWhileProcessing ==
  [][isProcessing => settings' = settings]_vars

\* C10 as amended: while the flag is set no run starts and the flag is
\* cleared only by the end of the run (Start and Clear are disabled); an
\* edit of the settings changes neither the collection nor the run in
\* progress.
C10_FlagDisablesStartAndClear ==
  [][isProcessing =>
       /\ started' = started
       /\ ~isProcessing' =>
            \E r \in DOMAIN runs :
              Active(runs[r]) /\ r \in DOMAIN runs' /\ ~Active(runs'[r])
       /\ settings' # settings =>
            /\ images' = images
            /\ isProcessing'
            /\ Retire(runs') = Retire(runs)]_vars

\* the settings were edited while the run is in progress
C10_Witness ==
  /\ isProcessing
  /\ \E r \in ActiveRuns : settings # runs[r].settings

\* the ids handed out so far
KnownIds == 1..(nextId - 1)

\* the run's loop has gone past the snapshot item with this id
TurnOver(run, id) ==
  /\ id \in Ids(run.images)
  /\ PositionIn(run, id) \in Open(run)
  /\ PositionIn(run, id) < run.i

\* C11: once an item has left the collection, no later step (a runner
\* update by identifier among them) brings an item with its identifier
\* back: the update for an absent identifier changes nothing.
C11_RemovedStaysRemoved ==
  [][\A id \in KnownIds : id \notin Ids(images) => id \notin Ids(images')]_vars

\* a run's call for an item that was removed before its turn has
\* succeeded (a present item would be completed, and a completed item
\* cannot be removed during a run)
C11_Witness ==
  \E r \in DOMAIN runs :
    \E id \in Ids(runs[r].log) \ runs[r].failed :
      /\ TurnOver(runs[r], id)
      /\ id \in revoked
      /\ ~Present(id)

\* C12: within a run, an item whose turn has ended with completed or error
\* keeps that status until the run ends.
C12_TerminalWithinRun ==
  [][\A r \in DOMAIN runs :
       Active(runs[r]) =>
         \A k \in DOMAIN images :
           (TurnOver(runs[r], images[k].id) /\ images[k].status \in Terminal) =>
             \A m \in DOMAIN images' :
               images'[m].id = images[k].id => images'[m].status = images[k].status]_vars

\* the loop is at its third item and the first two have ended, one in
\* error and one completed
C12_Witness ==
  \E r \in DOMAIN runs :
    /\ Active(runs[r])
    /\ runs[r].i = 3
    /\ Len(images) = 3
    /\ {images[1].status, images[2].status} = Terminal
    /\ images[3].status = "processing"

\* the status changes of the items that stay in the collection
StatusChanges ==
  { <<images[km[1]].status, images'[km[2]].status>> :
      km \in { x \in (DOMAIN images) \X (DOMAIN images') :
                /\ images[x[1]].id = images'[x[2]].id
                /\ images[x[1]].status # images'[x[2]].status } }

\* C13 as stated: every status change is pending to processing, processing
\* to completed or processing to error.
C13_OnlyForwardChanges ==
  [][StatusChanges \subseteq
       { <<"pending", "processing">>, <<"processing", "completed">>,
         <<"processing", "error">> }]_vars

\* C13 as amended: a later run also takes an item from error to
\* processing; no item ever leaves completed.
C13_ChangesWithRetry ==
  [][StatusChanges \subseteq
       { <<"pending", "processing">>, <<"processing", "completed">>,
         <<"processing", "error">>, <<"error", "processing">> }]_vars

\* a run is processing an item that was in error when the run started
C13_Witness ==
  \E r \in DOMAIN runs :
    /\ runs[r].pc \in {"encode", "generate"}
    /\ runs[r].images[runs[r].i].status = "error"
    /\ Present(runs[r].images[runs[r].i].id)
    /\ StatusOf(runs[r].images[runs[r].i].id) = "processing"

\* C14: with every encode and every API call settling, a set flag is
\* eventually cleared, and the step that clears it is the return of a run
\* all of whose items not completed at its start have had their turn and,
\* if still in the collection, have status completed or error.
C14_RunEndsAfterLastItem ==
  /\ [](isProcessing => <>(~isProcessing))
  /\ [][(isProcessing /\ ~isProcessing') =>
          \E r \in DOMAIN runs :
            /\ Active(runs[r])
            /\ r \in DOMAIN runs'
            /\ ~Active(runs'[r])
            /\ \A k \in Open(runs'[r]) :
                 LET id == runs'[r].images[k].id
                 IN  /\ id \in Ids(runs'[r].log) \cup runs'[r].failed
                     /\ \A m \in DOMAIN images' :
                          images'[m].id = id => images'[m].status \in Terminal]_vars

\* a run over two items has returned and cleared the flag
C14_Witness ==
  /\ ~isProcessing
  /\ \E r \in DOMAIN runs :
       /\ runs[r].pc = "done"
       /\ Cardinality(Open(runs[r])) = 2
       /\ Cardinality(Ids(runs[r].log) \cup runs[r].failed) = 2

\* C15: generateLifestyleImage returns the image of the first part, in
\* order, that carries inline data, whatever its position, and fails with
\* the no-image error exactly when no part carries inline data (a response
\* without candidates or without parts included).
C15_FirstInlinePart ==
  \A c \in DOMAIN call :
    call[c].settled =>
      LET parts == IF call[c].response.hasCandidate THEN call[c].response.parts ELSE <<>>
          carriers == { k \in DOMAIN parts : parts[k] # "text" }
      IN  IF carriers = {}
            THEN call[c].result = [ok |-> FALSE, message |-> NoImageMessage]
            ELSE LET first == CHOOSE k \in carriers : \A m \in carriers : k <= m
                 IN  call[c].result = [ok |-> TRUE, url |-> "data:image/png;base64," \o parts[first]]

\* a response whose first part is text and whose second part is an image
\* has been scanned
C15_Witness ==
  \E c \in DOMAIN call :
    /\ call[c].settled
    /\ Len(call[c].response.parts) >= 2
    /\ call[c].response.parts[1] = "text"
    /\ call[c].response.parts[2] = "imgA"
    /\ call[c].result.ok

\* C16: within one run the image request client is called at most once for
\* each item, and not at all for an item whose encoding failed.
C16_NoRetry ==
  \A r \in DOMAIN runs :
    /\ \A a, b \in DOMAIN runs[r].log :
         runs[r].log[a].id = runs[r].log[b].id => a = b
    /\ \A a \in DOMAIN runs[r].log : runs[r].log[a].id \notin runs[r].unreadable

\* a run has returned in which one item's encoding failed and another
\* item's API call failed
C16_Witness ==
  \E r \in DOMAIN runs :
    /\ runs[r].pc = "done"
    /\ runs[r].unreadable # {}
    /\ \E a \in DOMAIN runs[r].log : runs[r].log[a].id \in runs[r].failed

\* C17: at most one item has status processing, and at most one invocation
\* of startProcessing is waiting for an encode or an API call.
C17_OneAtATime ==
  /\ Cardinality({ k \in DOMAIN images : images[k].status = "processing" }) <= 1
  /\ Cardinality({ r \in DOMAIN runs : runs[r].pc \in {"encode", "generate"} }) <= 1

\* the API call for the second of three items is in flight, the first item
\* being in error and the third pending
C17_Witness ==
  \E r \in DOMAIN runs :
    /\ runs[r].pc = "generate"
    /\ runs[r].i = 2
    /\ Len(images) = 3
    /\ images[1].status = "error"
    /\ images[2].status = "processing"
    /\ images[3].status = "pending"

\* the items a step of the runner updates: the one whose turn ends and the
\* one whose turn begins
Updated ==
  { runs[r].images[runs[r].i].id : r \in { x \in DOMAIN runs : Active(runs[x]) } }
    \cup { runs'[r].images[runs'[r].i].id : r \in { x \in DOMAIN runs' : Active(runs'[x]) } }

RunnerStep ==
  \/ startProcessing
  \/ \E r \in DOMAIN runs : encodeResolve(r) \/ encodeReject(r)
  \/ \E r \in DOMAIN runs : generateResolve(r) \/ generateReject(r)

\* C18: a step of the runner keeps the collection's length and order, and
\* changes no item other than the ones it updates to processing, completed
\* or error.
C18_UpdatesOnlyTheirItem ==
  [][RunnerStep =>
       /\ Len(images') = Len(images)
       /\ \A k \in DOMAIN images :
            /\ images'[k].id = images[k].id
            /\ images[k].id \notin Updated => images'[k] = images[k]]_vars

\* the turn of the second of three items has begun after the first one
\* completed, the third still pending
C18_Witness ==
  \E r \in DOMAIN runs :
    /\ runs[r].pc = "encode"
    /\ runs[r].i = 2
    /\ Len(images) = 3
    /\ images[1].status = "completed"
    /\ images[1].resultUrl # Undefined
    /\ images[2].status = "processing"
    /\ images[3] = NewImageFile(images[3].id)

\* C19: removeImage revokes the preview of the removed item and of no other
\* item; clearAll revokes the preview of every item, empties the collection
\* and sets the flag to false; no other step revokes a preview, and no item
\* of the collection has a revoked preview.
C19_PreviewsReleased ==
  /\ [][removeImage =>
          \E id \in Ids(images) :
            /\ revoked' \ revoked = {id}
            /\ revoked \subseteq revoked'
            /\ Ids(images') = Ids(images) \ {id}]_vars
  /\ [][clearAll =>
          /\ revoked' = revoked \cup Ids(images)
          /\ images' = <<>>
          /\ ~isProcessing']_vars
  /\ [][revoked' \ revoked = Ids(images) \ Ids(images')]_vars
  /\ [](revoked \cap Ids(images) = {})

\* the second of three items is the only one left, the previews of the
\* other two revoked
C19_Witness ==
  /\ Len(images) = 1
  /\ images[1].id = 2
  /\ revoked = {1, 3}

\* C20: the image request client is only called for an item that is in the
\* collection at the moment of the call.
C20_CallsOnlyForPresent ==
  \A r \in DOMAIN runs :
    runs[r].pc = "generate" => Present(runs[r].images[runs[r].i].id)

\* C21: while the in-progress flag is set no item is added to the
\* collection.
C21_NoUploadWhileProcessing ==
  [][isProcessing => (nextId' = nextId /\ Ids(images') \subseteq Ids(images))]_vars

\* no item is removed in a step that starts with its status processing
ProcessingItemsStay ==
  \A k \in DOMAIN images :
    images[k].status = "processing" => images[k].id \in Ids(images')

\* the step that settles a request in flight writes to an item of the
\* collection
SettledItemPresent ==
  \A r \in DOMAIN runs :
    (generateResolve(r) \/ generateReject(r)) =>
      runs[r].images[runs[r].i].id \in Ids(images')

\* C22: no item is removed while its status is processing, and the result
\* of a request in flight is written to an item that is still in the
\* collection.
C22_InFlightItemStays ==
  [][ProcessingItemsStay /\ SettledItemPresent]_vars

\* the answer to a failure: a status other than 200 and a JSON error
\* envelope
FailureAnswered(answer) ==
  /\ answer.status # 200
  /\ answer.body \in { ErrorEnvelope(m) : m \in ThrownMessages }

\* C23: once onRequestPost has answered, a forwarding failure (an exception
\* while reading the request or fetching upstream, or an upstream status
\* outside 200..299) got a non-200 status and a JSON error envelope, and
\* any other request got the upstream response body verbatim.
C23_ProxyAnswers ==
  \A c \in DOMAIN proxy :
    proxy[c].pc = "done" =>
      IF proxy[c].threw \/ proxy[c].upstream.status \notin 200..299
        THEN FailureAnswered(proxy[c].answer)
        ELSE proxy[c].answer.body = proxy[c].upstream.body

====
